---- MODULE Spec2Model ----
(***************************************************************************)
(* BuildSelect Pro: the validator and the sanitizer of blueprint-analysis  *)
(* results and the analysis service that stores them (catalogService.ts),  *)
(* the selection generator (lib/selectionGenerator) with its quantity      *)
(* table and the two UI flows that call it, and the status buttons of the  *)
(* project page.                                                           *)
(*                                                                         *)
(* Units.  Lengths are counted in half feet and areas in quarter square    *)
(* feet, so that length * width of two half-foot lengths is exact and      *)
(* Math.round has something to round.  Confidence is counted in tenths.    *)
(* Prices are counted in cents.                                            *)
(***************************************************************************)
EXTENDS Integers, Sequences, FiniteSets, TLC

VARIABLES
    result,     \* the analysis record handed to sanitizeAnalysisResult (mutated in place)
    prev,       \* the record as it was before the latest sanitize pass
    passes,     \* number of sanitize passes applied to result
    threw,      \* TRUE once a pass has thrown a TypeError
    questionnaire,  \* the project's row of table questionnaires (exists = FALSE: no row)
    status,         \* projects.status of the project
    catalog_id,     \* projects.catalog_id of the project ("" is null)
    publicCatalog,  \* TRUE when table catalogs has a row with is_public = true
    selections,     \* the project's rows of table selections
    nextId,         \* number of insert batches so far (row ids are generated per insert)
    pc,             \* per browser session: the await its running flow is suspended at
    local,          \* per browser session: the local variables of its flow
    started,        \* number of flows started so far
    serialized,     \* TRUE when the surrounding system runs one flow of the project at a time
    validation,     \* the latest call of validateAnalysisResult(result) and what it returned
    quantityCall,   \* the latest call of getQuantityForRoomAndSubcategory and what it returned
    project,        \* ProjectDetail's loaded copy of the status ("": no page is open)
    files,          \* the project's rows of table project_files, by id
    ab,             \* the running call of the blueprint analysis service and its locals
    log,            \* history: the analyzeBlueprint calls that finished, oldest first
    calls           \* number of service calls started so far

sanVars == <<result, prev, passes, threw>>
genVars == <<questionnaire, status, catalog_id, publicCatalog, selections, nextId, pc, local,
             started, serialized>>
callVars == <<validation, quantityCall>>
pageVars == <<project>>
fileVars == <<files, ab, log, calls>>
vars == <<result, prev, passes, threw, questionnaire, status, catalog_id, publicCatalog,
          selections, nextId, pc, local, started, serialized, validation, quantityCall,
          project, files, ab, log, calls>>

(***************************************************************************)
(* JavaScript values, as far as the sanitizer looks at them.               *)
(***************************************************************************)
Undef == [k |-> "undefined", n |-> 0, s |-> ""]
Null == [k |-> "null", n |-> 0, s |-> ""]
NaN == [k |-> "NaN", n |-> 0, s |-> ""]
Num(x) == [k |-> "number", n |-> x, s |-> ""]
Str(t) == [k |-> "string", n |-> 0, s |-> t]
Arr(t) == [k |-> "array", n |-> 0, s |-> t]
Obj(t) == [k |-> "object", n |-> 0, s |-> t]

\* x feet in half feet, x square feet in quarter square feet
Ft(x) == 2 * x
SqFt(x) == 4 * x

\* ToBoolean
Truthy(v) ==
    CASE v.k = "undefined" -> FALSE
      [] v.k = "null" -> FALSE
      [] v.k = "NaN" -> FALSE
      [] v.k = "number" -> v.n # 0
      [] v.k = "string" -> v.s # ""
      [] OTHER -> TRUE

\* ToNumber (the strings of the model are "" or not numeric)
ToNumber(v) ==
    CASE v.k = "number" -> v
      [] v.k = "null" -> Num(0)
      [] v.k = "string" /\ v.s = "" -> Num(0)
      [] OTHER -> NaN

\* a || b
JsOr(a, b) == IF Truthy(a) THEN a ELSE b

\* a < b against a number: false when either side is NaN
JsLess(a, b) ==
    LET x == ToNumber(a)
        y == ToNumber(b)
    IN x.k = "number" /\ y.k = "number" /\ x.n < y.n

\* a > b
JsGreater(a, b) == JsLess(b, a)

\* a * b, a - b, Math.abs(a)
JsMul(a, b) ==
    LET x == ToNumber(a)
        y == ToNumber(b)
    IN IF x.k = "number" /\ y.k = "number" THEN Num(x.n * y.n) ELSE NaN

JsSub(a, b) ==
    LET x == ToNumber(a)
        y == ToNumber(b)
    IN IF x.k = "number" /\ y.k = "number" THEN Num(x.n - y.n) ELSE NaN

MathAbs(a) ==
    LET x == ToNumber(a)
    IN IF x.k = "number" THEN Num(IF x.n < 0 THEN -x.n ELSE x.n) ELSE NaN

\* Math.round on an area in quarter square feet: floor(x + 0.5)
MathRound(a) ==
    LET x == ToNumber(a)
    IN IF x.k = "number" THEN Num(4 * ((x.n + 2) \div 4)) ELSE NaN

(***************************************************************************)
(* sanitizeAnalysisResult and its helper                                   *)
(***************************************************************************)
validTypes == {"kitchen", "bathroom", "bedroom", "living_room", "dining_room", "office", "other"}

\* the defaults table, in square feet
defaults ==
    [t \in validTypes |->
        CASE t = "kitchen" -> 200
          [] t = "bathroom" -> 60
          [] t = "bedroom" -> 150
          [] t = "living_room" -> 300
          [] t = "dining_room" -> 200
          [] t = "office" -> 150
          [] OTHER -> 100]

\* defaults[roomType] || 100
getDefaultSquareFootage(roomType) ==
    IF roomType.k = "string" /\ roomType.s \in validTypes
    THEN Num(SqFt(defaults[roomType.s]))
    ELSE Num(SqFt(100))

ZeroDimensions == [k |-> "object", length |-> Num(0), width |-> Num(0), squareFootage |-> Num(0)]

\* if (Math.abs(calculated - existing) > 5) squareFootage = Math.round(calculated)
Recalculate(d) ==
    IF Truthy(d.length) /\ Truthy(d.width)
    THEN LET calculated == JsMul(d.length, d.width)
             existing == JsOr(d.squareFootage, Num(0))
         IN IF JsGreater(MathAbs(JsSub(calculated, existing)), Num(SqFt(5)))
            THEN [d EXCEPT !.squareFootage = MathRound(calculated)]
            ELSE d
    ELSE d

\* if (squareFootage < 10) squareFootage = getDefaultSquareFootage(room.type)
EnsureReasonable(d, type) ==
    IF JsLess(d.squareFootage, Num(SqFt(10)))
    THEN [d EXCEPT !.squareFootage = getDefaultSquareFootage(type)]
    ELSE d

\* the "Fix dimensions" block
FixDimensions(d, type) ==
    IF d.k # "object"
    THEN ZeroDimensions
    ELSE EnsureReasonable(Recalculate(d), type)

\* the "Ensure confidence score is valid" block (0.5 is 5 tenths, 1 is 10 tenths)
FixConfidence(c) ==
    IF c.k = "undefined" \/ JsLess(c, Num(0)) \/ JsGreater(c, Num(10))
    THEN Num(5)
    ELSE c

\* a sanitizer that keeps every type that is a text
FixType_KeepText(t) == IF t.k = "string" THEN t ELSE Str("other")

\* the "Validate room type" block
FixType(t) == IF t.k = "string" /\ t.s \in validTypes THEN t ELSE Str("other")

\* the callback of result.rooms.map, on a room that is an object (idx counts from 0)
SanitizeRoom(room, idx) ==
    [k |-> "object",
     id |-> JsOr(room.id, Str("room-" \o ToString(idx + 1))),
     name |-> JsOr(room.name, Str("Room " \o ToString(idx + 1))),
     features |-> IF room.features.k = "array" THEN room.features ELSE Arr("[]"),
     requirements |-> JsOr(room.requirements, Obj("{}")),
     dimensions |-> FixDimensions(room.dimensions, room.type),
     confidence |-> FixConfidence(room.confidence),
     type |-> FixType(room.type)]

\* the elements of rooms on which the callback throws a TypeError: null (reading
\* room.id) and a primitive (assigning room.id in an ES module, which is strict)
ThrowsOn(room) == room.k # "object"

\* index of the first element the callback throws on, 0 when there is none
FirstThrow(rooms) ==
    IF \E i \in 1..Len(rooms) : ThrowsOn(rooms[i])
    THEN CHOOSE i \in 1..Len(rooms) :
            ThrowsOn(rooms[i]) /\ \A j \in 1..(i - 1) : ~ThrowsOn(rooms[j])
    ELSE 0

\* the rooms array when sanitizeAnalysisResult starts mapping it
RoomsArray(r) == IF r.rooms.k = "array" THEN r.rooms.items ELSE <<>>

\* TRUE when sanitizeAnalysisResult(r) throws
SanitizeThrows(r) == FirstThrow(RoomsArray(r)) # 0

\* the record after sanitizeAnalysisResult(r); when it throws, the record as the
\* exception leaves it: the rooms before the throwing one are already rewritten
\* in place, result.rooms and the global fields are not reassigned
sanitizeAnalysisResult(r) ==
    LET rooms == RoomsArray(r)
        bad == FirstThrow(rooms)
    IN IF bad # 0
       THEN [r EXCEPT !.rooms = [k |-> "array",
                                 items |-> [i \in 1..Len(rooms) |->
                                              IF i < bad THEN SanitizeRoom(rooms[i], i - 1)
                                              ELSE rooms[i]]]]
       ELSE [rooms |-> [k |-> "array",
                        items |-> [i \in 1..Len(rooms) |-> SanitizeRoom(rooms[i], i - 1)]],
             totalSquareFootage |-> JsOr(r.totalSquareFootage, Num(0)),
             floorCount |-> JsOr(r.floorCount, Num(1)),
             recommendations |-> IF r.recommendations.k = "array"
                                 THEN r.recommendations ELSE Arr("[]")]

(***************************************************************************)
(* validateAnalysisResult.  A warning is modelled by the rule that pushed  *)
(* it and the index of the room it names (-1: no room).                    *)
(***************************************************************************)
Warning(idx, rule) == [room |-> idx, rule |-> rule]

\* the "Validate square footage is reasonable" and "Check length and width make
\* sense" blocks, for a room that has dimensions d
DimensionErrors(d, idx) ==
    LET sqft == d.squareFootage
    IN (IF ~Truthy(sqft) \/ JsLess(sqft, Num(SqFt(10)))
        THEN <<Warning(idx, "invalid square footage")>> ELSE <<>>)
       \o (IF JsGreater(sqft, Num(SqFt(2000)))
           THEN <<Warning(idx, "seems too large")>> ELSE <<>>)
       \o (IF /\ Truthy(d.length) /\ Truthy(d.width)
              /\ JsGreater(MathAbs(JsSub(JsMul(d.length, d.width), sqft)), Num(SqFt(5)))
           THEN <<Warning(idx, "mismatched dimensions")>> ELSE <<>>)

\* the callback of result.rooms.forEach, on an element that is not null (a
\* primitive element has no properties: every read gives undefined)
RoomErrors(room, idx) ==
    (IF ~Truthy(room.name) THEN <<Warning(idx, "missing a name")>> ELSE <<>>)
    \o (IF room.dimensions.k # "object"
        THEN <<Warning(idx, "missing dimensions")>>
        ELSE DimensionErrors(room.dimensions, idx))
    \o (IF room.confidence.k # "undefined"
           /\ (JsLess(room.confidence, Num(0)) \/ JsGreater(room.confidence, Num(10)))
        THEN <<Warning(idx, "invalid confidence score")>> ELSE <<>>)
    \o (IF ~(room.type.k = "string" /\ room.type.s \in validTypes)
        THEN <<Warning(idx, "invalid type")>> ELSE <<>>)

\* the warnings of the first n rooms, in the order forEach pushes them
RECURSIVE RoomsErrors(_, _)
RoomsErrors(rooms, n) ==
    IF n = 0 THEN <<>>
    ELSE RoomsErrors(rooms, n - 1) \o RoomErrors(rooms[n], n - 1)

\* the "Check total square footage" block
TotalErrors(r) ==
    IF Truthy(r.totalSquareFootage) /\ JsLess(r.totalSquareFootage, Num(SqFt(100)))
    THEN <<Warning(-1, "total square footage seems too low")>> ELSE <<>>

\* TRUE when validateAnalysisResult(r) throws a TypeError: the callback reads
\* room.name of a null element
ValidateThrows(r) ==
    /\ r.rooms.k = "array"
    /\ \E i \in 1..Len(r.rooms.items) : r.rooms.items[i].k = "null"

\* the array validateAnalysisResult(r) returns, where it does not throw
validateAnalysisResult(r) ==
    IF r.rooms.k # "array"
    THEN <<Warning(-1, "rooms is not an array")>>
    ELSE RoomsErrors(r.rooms.items, Len(r.rooms.items)) \o TotalErrors(r)

\* a validation that also repairs the total it finds missing
AfterValidate_Repairing(r) == [r EXCEPT !.totalSquareFootage = JsOr(@, Num(0))]

\* the record after validateAnalysisResult(r): the function reads result and its
\* rooms and assigns to errors only
AfterValidate(r) == r

(***************************************************************************)
(* The inputs of the sanitizer: records as the vision model may return     *)
(* them.                                                                   *)
(***************************************************************************)
MaxPasses == 2

Lengths == {Undef, Num(0), Num(Ft(1)), Num(7), Num(Ft(12))}
Widths == {Undef, Num(Ft(2)), Num(Ft(3)), Num(Ft(10))}
SquareFootages ==
    {Undef, Null, Str("n/a"), Num(0), Num(SqFt(8)), Num(SqFt(10)), Num(SqFt(15)),
     Num(SqFt(120)), Num(SqFt(2000)), Num(SqFt(2100)), Num(-SqFt(20))}

NoDimensions(kind) == [k |-> kind, length |-> Undef, width |-> Undef, squareFootage |-> Undef]

DimensionsInputs ==
    {NoDimensions("undefined"), NoDimensions("null")}
    \cup {[k |-> "object", length |-> l, width |-> w, squareFootage |-> q] :
            l \in Lengths, w \in Widths, q \in SquareFootages}

TypeInputs == {Undef, Str("kitchen"), Str("bathroom"), Str("other"), Str("garage")}
ConfidenceInputs == {Undef, Null, Str("high"), Num(-1), Num(0), Num(5), Num(10), Num(14)}

\* rooms differing in what the dimension and confidence rules read
RoomInputs ==
    {[k |-> "object", id |-> i, name |-> i, features |-> Undef, requirements |-> Undef,
      dimensions |-> d, confidence |-> c, type |-> t] :
        i \in {Undef}, d \in DimensionsInputs, c \in ConfidenceInputs, t \in TypeInputs}

\* rooms differing in the fields the first four assignments read
FieldInputs ==
    {[k |-> "object", id |-> i, name |-> m, features |-> f, requirements |-> q,
      dimensions |-> NoDimensions("undefined"), confidence |-> Num(5), type |-> Str("office")] :
        i \in {Undef, Str("r7"), Str("room-2")}, m \in {Undef, Str(""), Str("Den")},
        f \in {Undef, Str("sink"), Arr("[sink]")}, q \in {Undef, Null, Obj("{plumbing}")}}

\* elements of rooms that are not records
NullRoom ==
    [k |-> "null", id |-> Undef, name |-> Undef, features |-> Undef, requirements |-> Undef,
     dimensions |-> NoDimensions("undefined"), confidence |-> Undef, type |-> Undef]
PrimitiveRoom == [NullRoom EXCEPT !.k = "number"]

RoomsInputs ==
    {[k |-> "undefined", items |-> <<>>], [k |-> "string", items |-> <<>>],
     [k |-> "array", items |-> <<>>]}
    \cup {[k |-> "array", items |-> <<r>>] : r \in RoomInputs \cup {NullRoom, PrimitiveRoom}}
    \cup {[k |-> "array", items |-> <<r, q>>] :
            r \in FieldInputs, q \in FieldInputs \cup {NullRoom, PrimitiveRoom}}
    \cup {[k |-> "array", items |-> <<NullRoom, r>>] : r \in FieldInputs}

GlobalInputs ==
    {[totalSquareFootage |-> Undef, floorCount |-> Undef, recommendations |-> Undef],
     [totalSquareFootage |-> Num(SqFt(50)), floorCount |-> Num(0), recommendations |-> Str("none")],
     [totalSquareFootage |-> Num(SqFt(1500)), floorCount |-> Num(2), recommendations |-> Arr("[r]")],
     [totalSquareFootage |-> Null, floorCount |-> Num(-2), recommendations |-> Null],
     [totalSquareFootage |-> Str("n/a"), floorCount |-> Str("two"), recommendations |-> Undef]}

AnalysisInputs ==
    {[rooms |-> rs, totalSquareFootage |-> g.totalSquareFootage, floorCount |-> g.floorCount,
      recommendations |-> g.recommendations] : rs \in RoomsInputs, g \in GlobalInputs}

(***************************************************************************)
(* The selection generator (lib/selectionGenerator): data                  *)
(***************************************************************************)
\* Texts that the generator searches are sequences of characters.
Lower(c) ==
    CASE c = "B" -> "b"
      [] c = "C" -> "c"
      [] c = "N" -> "n"
      [] OTHER -> c

\* f.toLowerCase()
toLowerCase(f) == [i \in 1..Len(f) |-> Lower(f[i])]

\* f.includes(pf)
includes(f, pf) ==
    \E i \in 1..(Len(f) + 1) :
        /\ i + Len(pf) - 1 <= Len(f)
        /\ SubSeq(f, i, i + Len(pf) - 1) = pf

\* table products: the rows of the one catalog of the model.  subcategory "" is
\* null, price Null is null, finish_options <<>> is null or an empty list.
Products ==
    {[id |-> "F1", catalog_id |-> "cat1", category |-> "plumbing",
      subcategory |-> "kitchen_faucet", price |-> Num(10000),
      finish_options |-> << <<"C", "r">>, <<"B", "r", " ", "N", "i">> >>, is_available |-> TRUE],
     [id |-> "F2", catalog_id |-> "cat1", category |-> "plumbing",
      subcategory |-> "kitchen_faucet", price |-> Num(25050),
      finish_options |-> << <<"B", "l">> >>, is_available |-> TRUE],
     [id |-> "S1", catalog_id |-> "cat1", category |-> "plumbing",
      subcategory |-> "", price |-> Null,
      finish_options |-> <<>>, is_available |-> TRUE],
     [id |-> "L1", catalog_id |-> "cat1", category |-> "lighting",
      subcategory |-> "ceiling", price |-> Num(4000),
      finish_options |-> << <<"n", "i">>, <<"C", "r">> >>, is_available |-> TRUE],
     [id |-> "K1", catalog_id |-> "cat1", category |-> "plumbing",
      subcategory |-> "kitchen_sink", price |-> Num(30000),
      finish_options |-> <<>>, is_available |-> FALSE],
     [id |-> "T1", catalog_id |-> "cat1", category |-> "hardware",
      subcategory |-> "cabinet_hardware", price |-> Num(500),
      finish_options |-> <<>>, is_available |-> TRUE]}

\* column finish_colors of a questionnaires row: a list of texts, or null
Finishes(items) == [k |-> "array", items |-> items]
NullFinishes == [k |-> "null", items |-> <<>>]

\* the product row with the given id
ProductById(id) == CHOOSE x \in Products : x.id = id

\* what QuestionnaireForm can submit: canProceed lets the form reach its last
\* step only with categories, finishes and rooms chosen, and the toggles keep
\* categories and finishes free of duplicates
KitchenForm ==
    [exists |-> TRUE, categories_selected |-> <<"plumbing", "lighting">>,
     room_list |-> <<[name |-> "Kitchen", type |-> "kitchen"]>>,
     finish_colors |-> Finishes(<< <<"N", "i">> >>)]

TwoRoomForm ==
    [exists |-> TRUE, categories_selected |-> <<"lighting">>,
     room_list |-> <<[name |-> "Bath", type |-> "bathroom"], [name |-> "Hall", type |-> "general"]>>,
     finish_colors |-> Finishes(<< <<"C", "r">> >>)]

HvacForm ==
    [exists |-> TRUE, categories_selected |-> <<"hvac">>,
     room_list |-> <<[name |-> "Hall", type |-> "general"]>>,
     finish_colors |-> Finishes(<< <<"C", "r">> >>)]

FormInputs == {KitchenForm, TwoRoomForm, HvacForm}

\* a questionnaires row that holds the column default of room_list, '[]': the
\* table accepts it, QuestionnaireForm never writes it
EmptyRoomsForm ==
    [exists |-> TRUE, categories_selected |-> <<"lighting">>,
     room_list |-> <<>>,
     finish_colors |-> Finishes(<< <<"C", "r">> >>)]

\* questionnaires rows whose finish_colors is null (the column is nullable) or
\* an empty list: the table accepts them, QuestionnaireForm never writes them
NullFinishesForm ==
    [exists |-> TRUE, categories_selected |-> <<"hardware", "lighting">>,
     room_list |-> <<[name |-> "Kitchen", type |-> "kitchen"]>>,
     finish_colors |-> NullFinishes]

EmptyFinishesForm ==
    [exists |-> TRUE, categories_selected |-> <<"lighting">>,
     room_list |-> <<[name |-> "Hall", type |-> "general"]>>,
     finish_colors |-> Finishes(<<>>)]

NoQuestionnaire ==
    [exists |-> FALSE, categories_selected |-> <<>>, room_list |-> <<>>,
     finish_colors |-> Finishes(<<>>)]

\* rows of table selections left by an earlier generation, one of them locked
PriorSelections ==
    {[id |-> <<0, 0>>, product_id |-> "F1", room_name |-> "Kitchen", quantity |-> 2,
      finish |-> <<"C", "r">>, unit_price |-> 10000, extended_price |-> 20000,
      sort_order |-> 0, is_locked |-> TRUE],
     [id |-> <<0, 1>>, product_id |-> "L1", room_name |-> "Kitchen", quantity |-> 2,
      finish |-> <<>>, unit_price |-> 4000, extended_price |-> 8000,
      sort_order |-> 1, is_locked |-> FALSE]}

(***************************************************************************)
(* The selection generator: the computation between the product query and  *)
(* the delete                                                              *)
(***************************************************************************)
\* the quantityMap of getQuantityForRoomAndSubcategory; 0 stands for "no entry"
quantityMap(roomType, subcategory) ==
    CASE roomType = "kitchen" ->
            (CASE subcategory = "kitchen_faucet" -> 1
               [] subcategory = "kitchen_sink" -> 1
               [] subcategory = "dishwasher" -> 1
               [] subcategory = "refrigerator" -> 1
               [] subcategory = "pendant" -> 3
               [] subcategory = "ceiling" -> 2
               [] subcategory = "outlet" -> 6
               [] subcategory = "cabinet_hardware" -> 24
               [] OTHER -> 0)
      [] roomType = "bathroom" ->
            (CASE subcategory = "bathroom_sink" -> 1
               [] subcategory = "bathroom_faucet" -> 1
               [] subcategory = "shower" -> 1
               [] subcategory = "toilet" -> 1
               [] subcategory = "pendant" -> 1
               [] subcategory = "ceiling" -> 1
               [] subcategory = "outlet" -> 4
               [] subcategory = "cabinet_hardware" -> 6
               [] OTHER -> 0)
      [] roomType = "general" ->
            (CASE subcategory = "ceiling" -> 1
               [] subcategory = "outlet" -> 4
               [] subcategory = "thermostat" -> 1
               [] OTHER -> 0)
      [] OTHER -> 0

\* a lookup without the fallback to the 'general' sub-table
getQuantity_NoGeneralFallback(roomType, subcategory) ==
    IF quantityMap(roomType, subcategory) # 0 THEN quantityMap(roomType, subcategory)
    ELSE 1

\* quantityMap[roomType]?.[subcategory] || quantityMap['general']?.[subcategory] || 1
getQuantityForRoomAndSubcategory(roomType, subcategory) ==
    IF quantityMap(roomType, subcategory) # 0 THEN quantityMap(roomType, subcategory)
    ELSE IF quantityMap("general", subcategory) # 0 THEN quantityMap("general", subcategory)
    ELSE 1

\* the rows the product query matches: catalog, categories, is_available
MatchingProducts(catalogId, categories) ==
    {x \in Products :
        /\ x.catalog_id = catalogId
        /\ \E i \in 1..Len(categories) : categories[i] = x.category
        /\ x.is_available}

\* the query has no ORDER BY: its rows come back in any order
Orderings(S) ==
    {f \in [1..Cardinality(S) -> S] : \A i, j \in 1..Cardinality(S) : f[i] = f[j] => i = j}

\* categoryGroups[category] || []
CategoryProducts(products, category) == SelectSeq(products, LAMBDA x : x.category = category)

\* product.subcategory || 'general'
Subcat(product) == IF product.subcategory # "" THEN product.subcategory ELSE "general"

\* the keys of subcategoryGroups in insertion order, which is the order
\* Object.entries walks them in (no subcategory of the model is an integer
\* key): the subcategories of categoryProducts, each at its first occurrence
SubcategoryKeys(categoryProducts) ==
    LET firsts == {i \in 1..Len(categoryProducts) :
                     \A j \in 1..(i - 1) :
                        Subcat(categoryProducts[j]) # Subcat(categoryProducts[i])}
    IN [k \in 1..Cardinality(firsts) |->
            Subcat(categoryProducts[CHOOSE i \in firsts :
                                        Cardinality({j \in firsts : j < i}) = k - 1])]

\* subcategoryGroups[subcat]
SubcategoryGroup(categoryProducts, subcat) ==
    SelectSeq(categoryProducts, LAMBDA x : Subcat(x) = subcat)

\* a generator that stops after the first subcategory bucket of a category
BucketsOf_FirstBucketOnly(room, category, products) ==
    LET categoryProducts == CategoryProducts(products, category)
        keys == SubcategoryKeys(categoryProducts)
    IN [i \in 1..(IF Len(keys) > 0 THEN 1 ELSE 0) |->
            [room |-> room, category |-> category, subcategory |-> keys[i],
             products |-> SubcategoryGroup(categoryProducts, keys[i])]]

\* the iterations of the innermost loop for one room and one category
BucketsOf(room, category, products) ==
    LET categoryProducts == CategoryProducts(products, category)
        keys == SubcategoryKeys(categoryProducts)
    IN [i \in 1..Len(keys) |->
            [room |-> room, category |-> category, subcategory |-> keys[i],
             products |-> SubcategoryGroup(categoryProducts, keys[i])]]

\* the iterations of the innermost loop for one room: for (const category of categories)
RECURSIVE RoomIterations(_, _, _)
RoomIterations(room, categories, products) ==
    IF categories = <<>> THEN <<>>
    ELSE BucketsOf(room, Head(categories), products)
            \o RoomIterations(room, Tail(categories), products)

\* a generator that walks the rooms from the last to the first
RECURSIVE Iterations_LastRoomFirst(_, _, _)
Iterations_LastRoomFirst(roomList, categories, products) ==
    IF roomList = <<>> THEN <<>>
    ELSE Iterations_LastRoomFirst(Tail(roomList), categories, products)
            \o RoomIterations(Head(roomList), categories, products)

\* all iterations of the innermost loop, in order: for (const room of roomList)
RECURSIVE Iterations(_, _, _)
Iterations(roomList, categories, products) ==
    IF roomList = <<>> THEN <<>>
    ELSE RoomIterations(Head(roomList), categories, products)
            \o Iterations(Tail(roomList), categories, products)

\* the finish resolution throws a TypeError: with finish options to search,
\* preferredFinishes.some is called, and preferredFinishes is null
SelectFinishThrows(finishOptions, preferredFinishes) ==
    Len(finishOptions) > 0 /\ preferredFinishes.k # "array"

\* the finish resolution of one product, where it does not throw
SelectFinish(finishOptions, preferredFinishes) ==
    IF Len(finishOptions) > 0
    THEN LET matches(f) == \E j \in 1..Len(preferredFinishes.items) :
                                includes(toLowerCase(f), toLowerCase(preferredFinishes.items[j]))
         IN IF \E i \in 1..Len(finishOptions) : matches(finishOptions[i])
            THEN finishOptions[CHOOSE i \in 1..Len(finishOptions) :
                                    /\ matches(finishOptions[i])
                                    /\ \A j \in 1..(i - 1) : ~matches(finishOptions[j])]
            ELSE finishOptions[1]
    ELSE <<>>

\* a generator that prices a product without a price at one cent
UnitPrice_OneCentWhenAbsent(product) == IF Truthy(product.price) THEN product.price.n ELSE 1

\* product.price ? parseFloat(product.price.toString()) : 0, in cents
UnitPrice(product) == IF Truthy(product.price) THEN product.price.n ELSE 0

\* the object pushed for one iteration, with the product the random index chose
\* (id is assigned by the insert)
MakeSelection(it, product, q, sortOrder) ==
    LET quantity == getQuantityForRoomAndSubcategory(it.room.type, it.subcategory)
    IN [id |-> <<0, 0>>,
        product_id |-> product.id,
        room_name |-> it.room.name,
        quantity |-> quantity,
        finish |-> SelectFinish(product.finish_options, q.finish_colors),
        unit_price |-> UnitPrice(product),
        extended_price |-> UnitPrice(product) * quantity,
        sort_order |-> sortOrder,
        is_locked |-> FALSE]

\* every array selections the loops can build over the iterations its: each
\* iteration pushes one element, Math.floor(Math.random() * products.length)
\* being any index of its bucket, and sortOrder++ numbering them from 0
Pushed(its, q) ==
    LET indexes == UNION {1..Len(its[i].products) : i \in 1..Len(its)}
        picks == {f \in [1..Len(its) -> indexes] :
                    \A i \in 1..Len(its) : f[i] <= Len(its[i].products)}
    IN {[i \in 1..Len(its) |-> MakeSelection(its[i], its[i].products[f[i]], q, i - 1)] :
            f \in picks}

\* every array selections generateSelections can build from the query's rows
GeneratedSelections(q, products) ==
    UNION {Pushed(its, q) :
            its \in {Iterations(q.room_list, q.categories_selected, products)}}

\* the loops throw while building the array sel: the finish resolution of one
\* of its products throws
LoopThrows(sel, q) ==
    \E i \in 1..Len(sel) :
        SelectFinishThrows(ProductById(sel[i].product_id).finish_options, q.finish_colors)

(***************************************************************************)
(* The two flows that run the generator: QuestionnaireForm.handleSubmit    *)
(* and SelectionsSection.handleGenerate.  Each action is one awaited call  *)
(* taking effect on the database, with the synchronous code that follows   *)
(* it up to the next await.  supabase calls resolve with an error field    *)
(* and do not throw.                                                       *)
(***************************************************************************)
MaxFlows == 2

Procs == {"s1", "s2"}

\* the locals of a flow that has not started; statusBefore, entry and outcome
\* are history: the status when the flow started, the stored rows and status
\* when generateSelections was called, and how the latest flow ended
NoLocal ==
    [flow |-> "none", catalogId |-> "", q |-> NoQuestionnaire, sel |-> <<>>, shown |-> {},
     statusBefore |-> "", entry |-> [selections |-> {}, status |-> ""], outcome |-> "none"]

\* a flow may start: the session is idle and, where flows are serialized, so is
\* every other session
MayStart(p) ==
    /\ pc[p] = "idle"
    /\ started < MaxFlows
    /\ serialized => \A o \in Procs : pc[o] = "idle"

\* where a flow goes on after its try block: handleGenerate awaits
\* loadSelections inside the try, handleSubmit has nothing left to await
AfterTry(p) == IF local[p].flow = "generate" THEN "loadSelections" ELSE "idle"

\* the status written by the catch block and by the no-catalog branch
RevertedStatus == "questionnaire"

\* handleSubmit up to its first await: the upsert of the form's data
SubmitUpsert(p) ==
    /\ MayStart(p)
    /\ \E d \in FormInputs : questionnaire' = d
    /\ pc' = [pc EXCEPT ![p] = "setGenerating"]
    /\ local' = [local EXCEPT ![p] = [NoLocal EXCEPT !.flow = "submit", !.statusBefore = status]]
    /\ started' = started + 1
    /\ UNCHANGED <<sanVars, callVars, pageVars, fileVars>>
    /\ UNCHANGED <<status, catalog_id, publicCatalog, selections, nextId, serialized>>

\* handleSubmit: update({ status: 'generating' })
SetGenerating(p) ==
    /\ pc[p] = "setGenerating"
    /\ status' = "generating"
    /\ pc' = [pc EXCEPT ![p] = "readCatalog"]
    /\ UNCHANGED <<sanVars, callVars, pageVars, fileVars>>
    /\ UNCHANGED <<questionnaire, catalog_id, publicCatalog, selections, nextId, local,
                   started, serialized>>

\* handleGenerate up to its first await: update({ status: 'generating' })
StartGenerate(p) ==
    /\ MayStart(p)
    /\ status' = "generating"
    /\ pc' = [pc EXCEPT ![p] = "readCatalog"]
    /\ local' = [local EXCEPT ![p] = [NoLocal EXCEPT !.flow = "generate",
                                                      !.statusBefore = status]]
    /\ started' = started + 1
    /\ UNCHANGED <<sanVars, callVars, pageVars, fileVars>>
    /\ UNCHANGED <<questionnaire, catalog_id, publicCatalog, selections, nextId, serialized>>

\* select('catalog_id') of the project; with a catalog the flow calls generateSelections
ReadCatalogId(p) ==
    /\ pc[p] = "readCatalog"
    /\ IF catalog_id # ""
       THEN /\ pc' = [pc EXCEPT ![p] = "gs_questionnaire"]
            /\ local' = [local EXCEPT ![p].catalogId = catalog_id,
                                      ![p].entry = [selections |-> selections, status |-> status]]
       ELSE /\ pc' = [pc EXCEPT ![p] = "findPublic"]
            /\ UNCHANGED local
    /\ UNCHANGED <<sanVars, callVars, pageVars, fileVars>>
    /\ UNCHANGED <<questionnaire, status, catalog_id, publicCatalog, selections, nextId,
                   started, serialized>>

\* the query for a public catalog
FindPublicCatalog(p) ==
    /\ pc[p] = "findPublic"
    /\ IF publicCatalog
       THEN /\ pc' = [pc EXCEPT ![p] = "assignCatalog"]
            /\ local' = [local EXCEPT ![p].catalogId = "cat1"]
       ELSE /\ pc' = [pc EXCEPT ![p] = "revert"]
            /\ UNCHANGED local
    /\ UNCHANGED <<sanVars, callVars, pageVars, fileVars>>
    /\ UNCHANGED <<questionnaire, status, catalog_id, publicCatalog, selections, nextId,
                   started, serialized>>

\* update({ catalog_id: catalog.id }), then the call of generateSelections
AssignCatalog(p) ==
    /\ pc[p] = "assignCatalog"
    /\ catalog_id' = local[p].catalogId
    /\ pc' = [pc EXCEPT ![p] = "gs_questionnaire"]
    /\ local' = [local EXCEPT ![p].entry = [selections |-> selections, status |-> status]]
    /\ UNCHANGED <<sanVars, callVars, pageVars, fileVars>>
    /\ UNCHANGED <<questionnaire, status, publicCatalog, selections, nextId, started, serialized>>

\* no catalog at all: update({ status: 'questionnaire' })
Revert(p) ==
    /\ pc[p] = "revert"
    /\ status' = RevertedStatus
    /\ pc' = [pc EXCEPT ![p] = AfterTry(p)]
    /\ local' = [local EXCEPT ![p].outcome = "nocatalog"]
    /\ UNCHANGED <<sanVars, callVars, pageVars, fileVars>>
    /\ UNCHANGED <<questionnaire, catalog_id, publicCatalog, selections, nextId, started,
                   serialized>>

\* a generator that deletes the stored selections before it checks for the
\* questionnaire
GS_ReadQuestionnaire_DeleteFirst(p) ==
    /\ pc[p] = "gs_questionnaire"
    /\ selections' = {}
    /\ IF ~questionnaire.exists
       THEN /\ pc' = [pc EXCEPT ![p] = "catch"]
            /\ local' = [local EXCEPT ![p].outcome = "raised"]
       ELSE /\ pc' = [pc EXCEPT ![p] = "gs_products"]
            /\ local' = [local EXCEPT ![p].q = questionnaire]
    /\ UNCHANGED <<sanVars, callVars, pageVars, fileVars>>
    /\ UNCHANGED <<questionnaire, status, catalog_id, publicCatalog, nextId, started, serialized>>

\* generateSelections: the questionnaire query and the check that follows it
GS_ReadQuestionnaire(p) ==
    /\ pc[p] = "gs_questionnaire"
    /\ IF ~questionnaire.exists
       THEN /\ pc' = [pc EXCEPT ![p] = "catch"]
            /\ local' = [local EXCEPT ![p].outcome = "raised"]
       ELSE /\ pc' = [pc EXCEPT ![p] = "gs_products"]
            /\ local' = [local EXCEPT ![p].q = questionnaire]
    /\ UNCHANGED <<sanVars, callVars, pageVars, fileVars>>
    /\ UNCHANGED <<questionnaire, status, catalog_id, publicCatalog, selections, nextId,
                   started, serialized>>

\* generateSelections: the product query, the check that follows it and the loops
GS_QueryProducts(p) ==
    /\ pc[p] = "gs_products"
    /\ \E products \in Orderings(MatchingProducts(local[p].catalogId,
                                                  local[p].q.categories_selected)) :
          IF Len(products) = 0
          THEN /\ pc' = [pc EXCEPT ![p] = "catch"]
               /\ local' = [local EXCEPT ![p].outcome = "raised"]
          ELSE \E sel \in GeneratedSelections(local[p].q, products) :
                  IF LoopThrows(sel, local[p].q)
                  THEN /\ pc' = [pc EXCEPT ![p] = "catch"]
                       /\ local' = [local EXCEPT ![p].outcome = "raised"]
                  ELSE IF Len(sel) > 0
                  THEN /\ pc' = [pc EXCEPT ![p] = "gs_delete"]
                       /\ local' = [local EXCEPT ![p].sel = sel]
                  ELSE /\ pc' = [pc EXCEPT ![p] = AfterTry(p)]
                       /\ local' = [local EXCEPT ![p].sel = sel, ![p].outcome = "returned"]
    /\ UNCHANGED <<sanVars, callVars, pageVars, fileVars>>
    /\ UNCHANGED <<questionnaire, status, catalog_id, publicCatalog, selections, nextId,
                   started, serialized>>

\* generateSelections: delete().eq('project_id', projectId)
GS_Delete(p) ==
    /\ pc[p] = "gs_delete"
    /\ selections' = {}
    /\ pc' = [pc EXCEPT ![p] = "gs_insert"]
    /\ UNCHANGED <<sanVars, callVars, pageVars, fileVars>>
    /\ UNCHANGED <<questionnaire, status, catalog_id, publicCatalog, nextId, local, started,
                   serialized>>

\* the rows one insert adds: the database gives each a fresh id
InsertedRows(sel, batch) == {[sel[i] EXCEPT !.id = <<batch, i>>] : i \in 1..Len(sel)}

\* generateSelections: insert(selections)
GS_Insert(p) ==
    /\ pc[p] = "gs_insert"
    /\ selections' = selections \cup InsertedRows(local[p].sel, nextId + 1)
    /\ nextId' = nextId + 1
    /\ pc' = [pc EXCEPT ![p] = "gs_status"]
    /\ UNCHANGED <<sanVars, callVars, pageVars, fileVars>>
    /\ UNCHANGED <<questionnaire, status, catalog_id, publicCatalog, local, started, serialized>>

\* generateSelections: update({ status: 'review' }), and the return
GS_UpdateStatus(p) ==
    /\ pc[p] = "gs_status"
    /\ status' = "review"
    /\ pc' = [pc EXCEPT ![p] = AfterTry(p)]
    /\ local' = [local EXCEPT ![p].outcome = "returned"]
    /\ UNCHANGED <<sanVars, callVars, pageVars, fileVars>>
    /\ UNCHANGED <<questionnaire, catalog_id, publicCatalog, selections, nextId, started,
                   serialized>>

\* the catch block of either flow: update({ status: 'questionnaire' })
Catch(p) ==
    /\ pc[p] = "catch"
    /\ status' = RevertedStatus
    /\ pc' = [pc EXCEPT ![p] = "idle"]
    /\ UNCHANGED <<sanVars, callVars, pageVars, fileVars>>
    /\ UNCHANGED <<questionnaire, catalog_id, publicCatalog, selections, nextId, local,
                   started, serialized>>

\* handleGenerate: await loadSelections()
LoadSelections(p) ==
    /\ pc[p] = "loadSelections"
    /\ local' = [local EXCEPT ![p].shown = selections]
    /\ pc' = [pc EXCEPT ![p] = "idle"]
    /\ UNCHANGED <<sanVars, callVars, pageVars, fileVars>>
    /\ UNCHANGED <<questionnaire, status, catalog_id, publicCatalog, selections, nextId,
                   started, serialized>>

\* a step of a flow that is under way
Continue(p) ==
    \/ SetGenerating(p)
    \/ ReadCatalogId(p)
    \/ FindPublicCatalog(p)
    \/ AssignCatalog(p)
    \/ Revert(p)
    \/ GS_ReadQuestionnaire(p)
    \/ GS_QueryProducts(p)
    \/ GS_Delete(p)
    \/ GS_Insert(p)
    \/ GS_UpdateStatus(p)
    \/ Catch(p)
    \/ LoadSelections(p)

\* no call of validateAnalysisResult or getQuantityForRoomAndSubcategory yet
NotValidated == [called |-> FALSE, threw |-> FALSE, errors |-> <<>>]
NoQuantityCall == [roomType |-> "", subcategory |-> "", called |-> FALSE, quantity |-> 0]
CallsAtRest == validation = NotValidated /\ quantityCall = NoQuantityCall

\* the record the pipeline returns for a response without rooms
EmptyAnalysis ==
    [rooms |-> [k |-> "array", items |-> <<>>], totalSquareFootage |-> Num(0),
     floorCount |-> Num(1), recommendations |-> Arr("[]")]

\* the locals of the analysis service when no call is running; atStart, logAt,
\* chosen and outcome are history: the rows and the length of the log when the
\* call started, the files analyzeProjectBlueprints selected, and how the
\* latest call ended
NoCall ==
    [pc |-> "idle", mode |-> "none", fileId |-> "", analysisResult |-> EmptyAnalysis,
     queue |-> <<>>, chosen |-> <<>>, atStart |-> <<>>, logAt |-> 0, results |-> <<>>,
     outcome |-> "none"]

\* no row in project_files and no call of the analysis service
FilesAtRest == files = <<>> /\ ab = NoCall /\ log = <<>> /\ calls = 0

SanAtRest ==
    /\ result = [rooms |-> [k |-> "array", items |-> <<>>], totalSquareFootage |-> Num(0),
                 floorCount |-> Num(1), recommendations |-> Arr("[]")]
    /\ prev = result
    /\ passes = 0
    /\ threw = FALSE

GenAtRest ==
    /\ questionnaire = NoQuestionnaire
    /\ status = "draft"
    /\ catalog_id = ""
    /\ publicCatalog = FALSE
    /\ selections = {}
    /\ nextId = 0
    /\ pc = [p \in Procs |-> "idle"]
    /\ local = [p \in Procs |-> NoLocal]
    /\ started = 0
    /\ serialized = TRUE
    /\ project = ""

\* the database before the flows of the model start
InitDb ==
    /\ questionnaire \in {NoQuestionnaire, KitchenForm, EmptyRoomsForm, NullFinishesForm,
                         EmptyFinishesForm}
    /\ status \in {"questionnaire", "review"}
    /\ catalog_id \in {"", "cat1"}
    /\ publicCatalog \in BOOLEAN
    /\ catalog_id # "" => publicCatalog
    /\ selections \in {{}, PriorSelections}
    /\ nextId = 0
    /\ pc = [p \in Procs |-> "idle"]
    /\ local = [p \in Procs |-> NoLocal]
    /\ started = 0
    /\ project = ""

InitGen == SanAtRest /\ CallsAtRest /\ FilesAtRest /\ InitDb /\ serialized = FALSE

InitSerial == SanAtRest /\ CallsAtRest /\ FilesAtRest /\ InitDb /\ serialized = TRUE

NextGen == \E p \in Procs : SubmitUpsert(p) \/ StartGenerate(p) \/ Continue(p)

\* flows of one project interleaving freely
SpecGen == InitGen /\ [][NextGen]_vars

\* flows of one project run one at a time
SpecSerial == InitSerial /\ [][NextGen]_vars

\* every awaited database call returns
Fairness == \A p \in Procs : WF_vars(Continue(p))

SpecSerialFair == SpecSerial /\ Fairness

\* generateSelections: the delete returns an error, which the code does not
\* read; no row is removed
GS_DeleteFails(p) ==
    /\ pc[p] = "gs_delete"
    /\ pc' = [pc EXCEPT ![p] = "gs_insert"]
    /\ UNCHANGED <<sanVars, callVars, pageVars, fileVars>>
    /\ UNCHANGED <<questionnaire, status, catalog_id, publicCatalog, selections, nextId, local,
                   started, serialized>>

\* generateSelections: the insert returns an error, which the code does not
\* read; no row is added
GS_InsertFails(p) ==
    /\ pc[p] = "gs_insert"
    /\ pc' = [pc EXCEPT ![p] = "gs_status"]
    /\ UNCHANGED <<sanVars, callVars, pageVars, fileVars>>
    /\ UNCHANGED <<questionnaire, status, catalog_id, publicCatalog, selections, nextId, local,
                   started, serialized>>

NextFaulty ==
    \E p \in Procs :
        \/ SubmitUpsert(p)
        \/ StartGenerate(p)
        \/ Continue(p)
        \/ GS_DeleteFails(p)
        \/ GS_InsertFails(p)

\* flows one at a time over a database whose delete and insert may fail
SpecFaulty == InitSerial /\ [][NextFaulty]_vars

(***************************************************************************)
(* The project page (pages/ProjectDetail): the status buttons and the      *)
(* questionnaire tab, next to the generation flows                         *)
(***************************************************************************)
\* projects.status, in the order of the CHECK constraint
Statuses == <<"draft", "questionnaire", "generating", "review", "approved", "exported">>

\* loadProject: the page's copy of the row
LoadProject ==
    /\ project' = status
    /\ UNCHANGED <<sanVars, genVars, callVars, fileVars>>

\* updateProjectStatus(newStatus): the update, and the loadProject after it
updateProjectStatus(newStatus) ==
    /\ status' = newStatus
    /\ project' = newStatus
    /\ UNCHANGED <<sanVars, callVars, fileVars>>
    /\ UNCHANGED <<questionnaire, catalog_id, publicCatalog, selections, nextId, pc, local,
                   started, serialized>>

\* the Approve button, rendered when canApprove
Approve ==
    /\ project = "review"
    /\ updateProjectStatus("approved")

\* the Mark as Exported button, rendered when canExport
MarkExported ==
    /\ project = "approved"
    /\ updateProjectStatus("exported")

\* QuestionnaireTab's effect: a draft project becomes 'questionnaire' (the read
\* and the update, with no other write between them)
OpenQuestionnaireTab ==
    /\ status = "draft"
    /\ status' = "questionnaire"
    /\ UNCHANGED <<sanVars, callVars, pageVars, fileVars>>
    /\ UNCHANGED <<questionnaire, catalog_id, publicCatalog, selections, nextId, pc, local,
                   started, serialized>>

\* a new, a reviewed or an approved project without stored selections (the
\* selections tab then shows the Generate button), on a page that has just
\* loaded it; the other statuses are reached from these
InitStatus ==
    /\ SanAtRest /\ CallsAtRest /\ FilesAtRest
    /\ questionnaire \in {NoQuestionnaire, KitchenForm}
    /\ status \in {"draft", "review", "approved"}
    /\ status = "draft" => questionnaire = NoQuestionnaire
    /\ catalog_id \in {"", "cat1"}
    /\ publicCatalog \in BOOLEAN
    /\ catalog_id # "" => publicCatalog
    /\ selections = {}
    /\ nextId = 0
    /\ pc = [p \in Procs |-> "idle"]
    /\ local = [p \in Procs |-> NoLocal]
    /\ started = 0
    /\ serialized = TRUE
    /\ project = status

NextStatus ==
    \/ \E p \in Procs : SubmitUpsert(p)
    \/ \E p \in Procs : StartGenerate(p)
    \/ \E p \in Procs : Continue(p)
    \/ LoadProject
    \/ Approve
    \/ MarkExported
    \/ OpenQuestionnaireTab

\* the page and the flows of one project, flows one at a time
SpecStatus == InitStatus /\ [][NextStatus]_vars

InitSan ==
    /\ result \in AnalysisInputs
    /\ prev = result
    /\ passes = 0
    /\ threw = FALSE
    /\ CallsAtRest
    /\ GenAtRest
    /\ FilesAtRest

\* one call result = sanitizeAnalysisResult(result)
Sanitize ==
    /\ passes < MaxPasses
    /\ ~threw
    /\ prev' = result
    /\ result' = sanitizeAnalysisResult(result)
    /\ threw' = SanitizeThrows(result)
    /\ passes' = passes + 1
    /\ UNCHANGED <<genVars, callVars, pageVars, fileVars>>

NextSan == Sanitize

SpecSan == InitSan /\ [][NextSan]_vars

(***************************************************************************)
(* validateAnalysisResult on its own: one call per behaviour               *)
(***************************************************************************)
TotalInputs ==
    {Undef, Null, Str("n/a"), Num(0), Num(SqFt(50)), Num(SqFt(100) - 1), Num(SqFt(100)),
     Num(SqFt(1500)), Num(-SqFt(20))}

\* the inputs of the sanitizer, and records over few rooms with more totals
ValidationInputs ==
    AnalysisInputs
    \cup {[rooms |-> rs, totalSquareFootage |-> t, floorCount |-> Num(1),
           recommendations |-> Arr("[]")] :
            rs \in {x \in RoomsInputs : Len(x.items) = 0}
                    \cup {[k |-> "array", items |-> <<r>>] : r \in FieldInputs},
            t \in TotalInputs}

InitVal ==
    /\ result \in ValidationInputs
    /\ prev = result
    /\ passes = 0
    /\ threw = FALSE
    /\ CallsAtRest
    /\ GenAtRest
    /\ FilesAtRest

\* one call errors = validateAnalysisResult(result)
Validate ==
    /\ ~validation.called
    /\ validation' = [called |-> TRUE,
                      threw |-> ValidateThrows(result),
                      errors |-> IF ValidateThrows(result) THEN <<>>
                                 ELSE validateAnalysisResult(result)]
    /\ prev' = result
    /\ result' = AfterValidate(result)
    /\ UNCHANGED <<passes, threw, genVars, quantityCall, pageVars, fileVars>>

NextVal == Validate

SpecVal == InitVal /\ [][NextVal]_vars

(***************************************************************************)
(* getQuantityForRoomAndSubcategory on its own: one call per behaviour     *)
(***************************************************************************)
\* room types: the options of QuestionnaireForm, and a type outside them
RoomTypeInputs == {"general", "kitchen", "bathroom", "bedroom", "living", "office"}

\* subcategories: the keys of the table, 'general' (a product without
\* subcategory) and a subcategory the table does not know
SubcategoryInputs ==
    {"kitchen_faucet", "kitchen_sink", "dishwasher", "refrigerator", "pendant", "ceiling",
     "outlet", "cabinet_hardware", "bathroom_sink", "bathroom_faucet", "shower", "toilet",
     "thermostat", "general", "range_hood"}

InitQty ==
    /\ quantityCall \in {[roomType |-> rt, subcategory |-> sc, called |-> FALSE, quantity |-> 0] :
                            rt \in RoomTypeInputs, sc \in SubcategoryInputs}
    /\ validation = NotValidated
    /\ SanAtRest
    /\ GenAtRest
    /\ FilesAtRest

\* quantity = getQuantityForRoomAndSubcategory(room.type, subcategory)
GetQuantity ==
    /\ ~quantityCall.called
    /\ quantityCall' =
            [quantityCall EXCEPT
                !.called = TRUE,
                !.quantity = getQuantityForRoomAndSubcategory(quantityCall.roomType,
                                                              quantityCall.subcategory)]
    /\ UNCHANGED <<sanVars, genVars, validation, pageVars, fileVars>>

NextQty == GetQuantity

SpecQty == InitQty /\ [][NextQty]_vars

(***************************************************************************)
(* The end of analyzeBlueprintWithClaudeVision: the parsed response is     *)
(* validated, sanitized when the validation returned warnings, and the     *)
(* returned record is built from it.  One call per behaviour.              *)
(***************************************************************************)
\* rooms that are labelled, sized and typed as the prompt asks, with or without
\* the fields the validator does not read
CleanRooms ==
    {[k |-> "object", id |-> i, name |-> Str("Den"), features |-> f,
      requirements |-> Obj("{plumbing}"),
      dimensions |-> [k |-> "object", length |-> Num(Ft(12)), width |-> Num(Ft(10)),
                      squareFootage |-> Num(SqFt(120))],
      confidence |-> c, type |-> Str("kitchen")] :
        i \in {Undef, Str("r7")}, f \in {Undef, Arr("[sink]")},
        c \in {Undef, Null, Num(8)}}

\* the parsed responses: the inputs of the sanitizer and records of clean rooms
ResponseInputs ==
    AnalysisInputs
    \cup {[rooms |-> [k |-> "array", items |-> <<r>>], totalSquareFootage |-> Num(SqFt(120)),
           floorCount |-> Num(1), recommendations |-> Arr("[r]")] : r \in CleanRooms}

\* TRUE when the validate-and-sanitize block throws on the response r
PipelineThrows(r) ==
    \/ ValidateThrows(r)
    \/ Len(validateAnalysisResult(r)) > 0 /\ SanitizeThrows(r)

\* analysisResult after the validate-and-sanitize block, where it does not throw
AfterValidation(r) ==
    IF Len(validateAnalysisResult(r)) > 0 THEN sanitizeAnalysisResult(r) ELSE AfterValidate(r)

\* the record the function returns for analysisResult a (extractedText is left out)
ReturnedRecord(a) ==
    [rooms |-> IF a.rooms.k \in {"undefined", "null"} THEN [k |-> "array", items |-> <<>>]
               ELSE a.rooms,
     totalSquareFootage |-> JsOr(a.totalSquareFootage, Num(0)),
     floorCount |-> JsOr(a.floorCount, Num(1)),
     recommendations |-> JsOr(a.recommendations, Arr("[]"))]

InitPipe ==
    /\ result \in ResponseInputs
    /\ prev = result
    /\ passes = 0
    /\ threw = FALSE
    /\ CallsAtRest
    /\ GenAtRest
    /\ FilesAtRest

\* the block from "Validate the analysis result" to the return statement; a
\* TypeError of the validator or the sanitizer is re-thrown by the catch
analyzeBlueprintWithClaudeVision ==
    /\ passes = 0
    /\ validation' = [called |-> TRUE,
                      threw |-> ValidateThrows(result),
                      errors |-> IF ValidateThrows(result) THEN <<>>
                                 ELSE validateAnalysisResult(result)]
    /\ prev' = result
    /\ threw' = PipelineThrows(result)
    /\ result' = IF PipelineThrows(result) THEN result
                 ELSE ReturnedRecord(AfterValidation(result))
    /\ passes' = 1
    /\ UNCHANGED <<genVars, quantityCall, pageVars, fileVars>>

NextPipe == analyzeBlueprintWithClaudeVision

SpecPipe == InitPipe /\ [][NextPipe]_vars

(***************************************************************************)
(* The blueprint analysis service: analyzeBlueprint, performAIAnalysis and *)
(* analyzeProjectBlueprints over the project's rows of project_files.      *)
(* Calls of the service run one at a time.                                 *)
(***************************************************************************)
MaxCalls == 2

FileIds == {"f1", "f2"}

\* the file types of the model: one the vision path takes, one it refuses
FileTypeInputs == {"pdf", "dwg"}

\* the values of a jsonb column: null or a record
NoAnalysis == [k |-> "null", v |-> EmptyAnalysis]
Json(v) == [k |-> "object", v |-> v]

\* JSON.stringify of the record sent in the update: NaN becomes null
ToJson(a) ==
    LET JsonValue(v) == IF v.k = "NaN" THEN Null ELSE v
        JsonRoom(room) ==
            [room EXCEPT !.confidence = JsonValue(@),
                         !.dimensions = [@ EXCEPT !.length = JsonValue(@),
                                                  !.width = JsonValue(@),
                                                  !.squareFootage = JsonValue(@)]]
    IN Json([a EXCEPT !.rooms = [@ EXCEPT !.items = [i \in 1..Len(@) |-> JsonRoom(@[i])]],
                      !.totalSquareFootage = JsonValue(@),
                      !.floorCount = JsonValue(@)])

\* the answers of the vision model in this part: one that validates without a
\* warning, one that the sanitizer repairs, and one the validator throws on
CleanResponse ==
    [rooms |-> [k |-> "array",
                items |-> <<CHOOSE r \in CleanRooms :
                              r.id = Str("r7") /\ r.features = Arr("[sink]")
                              /\ r.confidence = Num(8)>>],
     totalSquareFootage |-> Num(SqFt(120)), floorCount |-> Num(1),
     recommendations |-> Arr("[r]")]
RepairedResponse ==
    [rooms |-> [k |-> "array",
                items |-> <<CHOOSE r \in FieldInputs :
                              r.id = Undef /\ r.name = Str("Den") /\ r.features = Undef
                              /\ r.requirements = Undef>>],
     totalSquareFootage |-> Undef, floorCount |-> Undef, recommendations |-> Undef]
BrokenResponse == [RepairedResponse EXCEPT !.rooms = [k |-> "array", items |-> <<NullRoom>>]]
FileResponses == {CleanResponse, RepairedResponse, BrokenResponse}

\* a record stored by an analysis before the calls of the model
OldAnalysis ==
    Json([rooms |-> [k |-> "array",
                     items |-> <<SanitizeRoom(CleanResponse.rooms.items[1], 0),
                                 SanitizeRoom(RepairedResponse.rooms.items[1], 1)>>],
          totalSquareFootage |-> Num(SqFt(1500)), floorCount |-> Num(2),
          recommendations |-> Arr("[old]")])

\* performAIAnalysis throws: a type it does not implement, a failure of the
\* download or of the API call, or a TypeError of the validation block
PerformThrows(fileType, apiFails, response) ==
    \/ fileType \notin {"pdf", "image"}
    \/ apiFails
    \/ PipelineThrows(response)

\* what performAIAnalysis returns where it does not throw
performAIAnalysis(response) == ReturnedRecord(AfterValidation(response))

\* a row after an update that clears the stored record of a failed analysis
FailedFile_ClearsRecord(file) ==
    [file EXCEPT !.processing_status = "failed", !.ai_analysis_json = NoAnalysis]

\* a row after the update of the catch block
FailedFile(file) == [file EXCEPT !.processing_status = "failed"]

\* a row after the update that stores the analysis results
CompletedFile(file, analysisResult) ==
    [file EXCEPT !.processing_status = "completed",
                 !.ai_analysis_json = ToJson(analysisResult)]

\* the statuses a batch that skips failed files would select
SelectedStatuses_PendingOnly == {"pending"}

\* analyzeProjectBlueprints: .in('processing_status', ['pending', 'failed'])
SelectedStatuses == {"pending", "failed"}

\* a caller starts analyzeBlueprint on file f: the call up to its first await,
\* update({ processing_status: 'processing' })
AnalyzeBlueprint(f) ==
    /\ ab.pc = "idle"
    /\ calls < MaxCalls
    /\ files' = [files EXCEPT ![f].processing_status = "processing"]
    /\ ab' = [NoCall EXCEPT !.pc = "ab_context", !.mode = "single", !.fileId = f,
                            !.atStart = files, !.logAt = Len(log)]
    /\ calls' = calls + 1
    /\ UNCHANGED <<sanVars, genVars, callVars, pageVars, log>>

\* a caller starts analyzeProjectBlueprints: the query for the files to process
\* (no ORDER BY) and the return of [] when there is none
analyzeProjectBlueprints ==
    /\ ab.pc = "idle"
    /\ calls < MaxCalls
    /\ \E chosen \in Orderings({f \in FileIds :
                                   files[f].processing_status \in SelectedStatuses}) :
          ab' = [NoCall EXCEPT !.pc = IF Len(chosen) = 0 THEN "idle" ELSE "ab_start",
                               !.mode = "project", !.queue = chosen, !.chosen = chosen,
                               !.atStart = files, !.logAt = Len(log),
                               !.outcome = IF Len(chosen) = 0 THEN "returned" ELSE "none"]
    /\ calls' = calls + 1
    /\ UNCHANGED <<sanVars, genVars, callVars, pageVars, files, log>>

\* the loop of analyzeProjectBlueprints calls analyzeBlueprint on the next file:
\* update({ processing_status: 'processing' })
AB_SetProcessing ==
    /\ ab.pc = "ab_start"
    /\ files' = [files EXCEPT ![Head(ab.queue)].processing_status = "processing"]
    /\ ab' = [ab EXCEPT !.pc = "ab_context", !.fileId = Head(ab.queue)]
    /\ UNCHANGED <<sanVars, genVars, callVars, pageVars, log, calls>>

\* analyzeBlueprint: the queries for the project context
AB_ReadContext ==
    /\ ab.pc = "ab_context"
    /\ ab' = [ab EXCEPT !.pc = "ab_perform"]
    /\ UNCHANGED <<sanVars, genVars, callVars, pageVars, files, log, calls>>

\* analyzeBlueprint: await this.performAIAnalysis(fileUrl, fileType, projectContext)
AB_PerformAnalysis ==
    /\ ab.pc = "ab_perform"
    /\ \E response \in FileResponses, apiFails \in BOOLEAN :
          IF PerformThrows(files[ab.fileId].file_type, apiFails, response)
          THEN ab' = [ab EXCEPT !.pc = "ab_catch"]
          ELSE ab' = [ab EXCEPT !.pc = "ab_store",
                                !.analysisResult = performAIAnalysis(response)]
    /\ UNCHANGED <<sanVars, genVars, callVars, pageVars, files, log, calls>>

\* the locals after analyzeBlueprint returned (ok) or threw: a single call ends;
\* the loop of analyzeProjectBlueprints pushes the result or logs the error and
\* goes on with the next file, and returns after the last one
AfterCall(c, ok) ==
    IF c.mode = "single"
    THEN [c EXCEPT !.pc = "idle", !.outcome = IF ok THEN "returned" ELSE "raised"]
    ELSE [c EXCEPT !.pc = IF Len(c.queue) > 1 THEN "ab_start" ELSE "idle",
                   !.queue = Tail(c.queue),
                   !.results = IF ok
                               THEN Append(c.results, [fileId |-> c.fileId,
                                                       analysis |-> c.analysisResult])
                               ELSE c.results,
                   !.outcome = IF Len(c.queue) > 1 THEN "none" ELSE "returned"]

\* analyzeBlueprint: the update that stores the results, and the return
AB_Store ==
    /\ ab.pc = "ab_store"
    /\ files' = [files EXCEPT ![ab.fileId] = CompletedFile(@, ab.analysisResult)]
    /\ log' = Append(log, [fileId |-> ab.fileId, ended |-> "returned",
                           result |-> ab.analysisResult])
    /\ ab' = AfterCall(ab, TRUE)
    /\ UNCHANGED <<sanVars, genVars, callVars, pageVars, calls>>

\* a catch block that leaves the status as it is and re-throws
AB_Catch_KeepsStatus ==
    /\ ab.pc = "ab_catch"
    /\ log' = Append(log, [fileId |-> ab.fileId, ended |-> "raised",
                           result |-> EmptyAnalysis])
    /\ ab' = AfterCall(ab, FALSE)
    /\ UNCHANGED <<sanVars, genVars, callVars, pageVars, files, calls>>

\* analyzeBlueprint: the catch block, update({ processing_status: 'failed' })
\* and throw error
AB_Catch ==
    /\ ab.pc = "ab_catch"
    /\ files' = [files EXCEPT ![ab.fileId] = FailedFile(@)]
    /\ log' = Append(log, [fileId |-> ab.fileId, ended |-> "raised",
                           result |-> EmptyAnalysis])
    /\ ab' = AfterCall(ab, FALSE)
    /\ UNCHANGED <<sanVars, genVars, callVars, pageVars, calls>>

\* the rows a file can have: uploaded and never analyzed, being analyzed,
\* analyzed, and failed on the first or on a later analysis
FileInputs ==
    {[processing_status |-> st[1], ai_analysis_json |-> st[2], file_type |-> t] :
        st \in {<<"pending", NoAnalysis>>, <<"processing", NoAnalysis>>,
                <<"completed", OldAnalysis>>, <<"failed", NoAnalysis>>,
                <<"failed", OldAnalysis>>},
        t \in FileTypeInputs}

InitFiles ==
    /\ SanAtRest /\ CallsAtRest /\ GenAtRest
    /\ files \in [FileIds -> FileInputs]
    /\ ab = [NoCall EXCEPT !.atStart = files]
    /\ log = <<>>
    /\ calls = 0

\* a step of a call that is under way
AB_Step ==
    \/ AB_SetProcessing
    \/ AB_ReadContext
    \/ AB_PerformAnalysis
    \/ AB_Store
    \/ AB_Catch

NextFiles ==
    \/ \E f \in FileIds : AnalyzeBlueprint(f)
    \/ analyzeProjectBlueprints
    \/ AB_Step

SpecFiles == InitFiles /\ [][NextFiles]_vars

\* every awaited call of a running analysis returns
SpecFilesFair == SpecFiles /\ WF_vars(AB_Step)

(***************************************************************************)
(* Claims about the sanitizer, checked under SpecSan                       *)
(***************************************************************************)
RoomsOf(r) == r.rooms.items

\* the rooms of the record a finished, non-throwing pass returned
Sanitized == passes >= 1 /\ ~threw

\* C1: for every input, sanitizeAnalysisResult terminates without throwing and
\* returns a record whose rooms field is a sequence.
C1_SanitizeNeverThrows ==
    /\ ~threw
    /\ passes >= 1 => result.rooms.k = "array"

\* C2: sanitizeAnalysisResult is idempotent: a second pass over the output of a
\* first pass changes no field.
C2_Idempotent == (passes >= 2 /\ ~threw) => result = prev

\* C3: after sanitizeAnalysisResult no room has a squareFootage below 10: every
\* room ends with a numeric squareFootage of at least 10 square feet.
C3_NoSmallSquareFootage ==
    Sanitized =>
        \A i \in 1..Len(RoomsOf(result)) :
            LET q == RoomsOf(result)[i].dimensions.squareFootage
            IN q.k = "number" /\ q.n >= SqFt(10)

\* length and width are both present and positive
PositiveSides(d) ==
    /\ d.k = "object"
    /\ d.length.k = "number" /\ d.length.n > 0
    /\ d.width.k = "number" /\ d.width.n > 0

\* |squareFootage - length * width| <= 5
WithinTolerance(d) ==
    /\ d.squareFootage.k = "number"
    /\ d.squareFootage.n - d.length.n * d.width.n <= SqFt(5)
    /\ d.length.n * d.width.n - d.squareFootage.n <= SqFt(5)

\* C4: for every room whose length and width are both present and positive,
\* after the first pass either |squareFootage - length*width| <= 5, or
\* squareFootage is the default of the room's type and the value it replaced
\* was below 10.
C4_MatchesGeometryOrDefault ==
    (passes = 1 /\ ~threw) =>
        \A i \in 1..Len(RoomsOf(result)) :
            LET before == RoomsOf(prev)[i]
                after == RoomsOf(result)[i]
            IN PositiveSides(before.dimensions) =>
                \/ WithinTolerance(after.dimensions)
                \/ /\ after.dimensions.squareFootage = getDefaultSquareFootage(before.type)
                   /\ JsLess(Recalculate(before.dimensions).squareFootage, Num(SqFt(10)))

\* C5: for every room, after sanitizeAnalysisResult, confidence is a number in
\* [0,1] (0 to 10 tenths).
C5_ConfidenceInRange ==
    Sanitized =>
        \A i \in 1..Len(RoomsOf(result)) :
            LET c == RoomsOf(result)[i].confidence
            IN c.k = "number" /\ 0 <= c.n /\ c.n <= 10

(***************************************************************************)
(* Claims about the generator and its flows                                *)
(***************************************************************************)
\* the stored rows are exactly the rows of the array sel, as one insert stored them
StoredExactly(sel) ==
    /\ Cardinality(selections) = Len(sel)
    /\ \E batch \in 1..nextId : selections = InsertedRows(sel, batch)

\* session p ran a flow whose generateSelections stored its rows and returned
RanToCompletion(p) ==
    /\ pc[p] = "idle"
    /\ local[p].outcome = "returned"
    /\ Len(local[p].sel) > 0

\* C6: when two generateSelections runs for the same project interleave, then
\* after both have finished the stored selections are exactly the set generated
\* by one of the two runs (checked under SpecGen).
C6_LastWriteWins ==
    (\A p \in Procs : RanToCompletion(p)) => \E p \in Procs : StoredExactly(local[p].sel)

\* C7: with no questionnaire for the project, or with a product query that
\* returns no row, generateSelections raises instead of going on, and when it
\* raises it has performed no delete, no insert and no status update: the stored
\* selections and the status are what they were when it was called (checked
\* under SpecSerial, where no other flow writes meanwhile).
C7_FailFastWritesNothing ==
    \A p \in Procs :
        /\ pc[p] = "catch" =>
            /\ selections = local[p].entry.selections
            /\ status = local[p].entry.status
        /\ (pc[p] \in {"gs_delete", "gs_insert", "gs_status"} \/ local[p].outcome = "returned") =>
            /\ local[p].q.exists
            /\ MatchingProducts(local[p].catalogId, local[p].q.categories_selected) # {}

\* C7 witness: generateSelections raised on an empty product query while rows
\* of an earlier generation were stored.
C7_Witness ==
    \E p \in Procs :
        /\ pc[p] = "catch"
        /\ local[p].q = HvacForm
        /\ selections = PriorSelections

\* the flow of session p has set the status to 'generating' and not finished
Generating(p) == pc[p] \notin {"idle", "setGenerating"}

\* C8: every flow that has set the status to 'generating' eventually ends, and
\* when it ends the status is 'review' or 'questionnaire', whether
\* generateSelections succeeds, raises or produces no selections, or no catalog
\* is found (checked under SpecSerialFair: flows run one at a time and every
\* awaited call returns).
C8_NeverStuckGenerating ==
    \A p \in Procs :
        Generating(p) ~> (pc[p] = "idle" /\ status \in {"review", "questionnaire"})

\* C9: in the step in which a generateSelections returns, the stored selections
\* are exactly the rows it generated: their number is the number generated,
\* whatever was stored before, and none is locked (checked under SpecSerial).
C9_Replacement ==
    [][\A p \in Procs :
          (local[p].outcome # "returned" /\ local'[p].outcome = "returned") =>
              /\ selections' = InsertedRows(local'[p].sel, nextId')
              /\ Cardinality(selections') = Len(local'[p].sel)
              /\ \A row \in selections' : ~row.is_locked]_vars

\* the (room index, category, subcategory bucket) triples the claim expects:
\* every bucket that holds an available product of a selected category
ExpectedTriples(q, catalogId) ==
    {<<r, x.category, IF x.subcategory = "" THEN "general" ELSE x.subcategory>> :
        r \in 1..Len(q.room_list),
        x \in {y \in Products :
                /\ y.catalog_id = catalogId
                /\ y.is_available
                /\ \E i \in 1..Len(q.categories_selected) : q.categories_selected[i] = y.category}}

\* row is a selection for the triple: its room, and a product of the bucket
SelectionFor(row, t, q, catalogId) ==
    LET x == ProductById(row.product_id)
    IN /\ row.room_name = q.room_list[t[1]].name
       /\ x.catalog_id = catalogId /\ x.is_available
       /\ x.category = t[2]
       /\ (IF x.subcategory = "" THEN "general" ELSE x.subcategory) = t[3]

\* C10: the array a generateSelections that does not raise builds holds exactly one selection for each
\* (room, selected category, non-empty subcategory bucket) triple and no other
\* selection, the chosen product is one of the bucket, and the number of
\* selections is at most R times the number of (category, bucket) pairs.
C10_OnePerTriple ==
    \A p \in Procs :
        (pc[p] # "gs_products" /\ local[p].outcome # "raised") =>
            LET sel == local[p].sel
                q == local[p].q
                triples == ExpectedTriples(q, local[p].catalogId)
                pairs == {<<t[2], t[3]>> : t \in triples}
            IN /\ \A t \in triples :
                    Cardinality({i \in 1..Len(sel) :
                                    SelectionFor(sel[i], t, q, local[p].catalogId)}) = 1
               /\ \A i \in 1..Len(sel) :
                    \E t \in triples : SelectionFor(sel[i], t, q, local[p].catalogId)
               /\ Len(sel) <= Len(q.room_list) * Cardinality(pairs)

\* C10 witness: an array of three selections for one room, one of them for the
\* 'general' bucket of the products without a subcategory.
C10_Witness ==
    \E p \in Procs :
        /\ Len(local[p].sel) = 3
        /\ \E i \in 1..3 : local[p].sel[i].product_id = "S1"

\* session p holds the array selections a generateSelections run has built
Built(p) == local[p].sel # <<>>

\* C11: every selection generateSelections produces has extended_price equal to
\* unit_price times quantity, and unit_price is the catalog price of the chosen
\* product, or 0 when the product has no price.
C11_ExtendedPrice ==
    \A p \in Procs :
        \A i \in 1..Len(local[p].sel) :
            LET row == local[p].sel[i]
                price == ProductById(row.product_id).price
            IN /\ row.extended_price = row.unit_price * row.quantity
               /\ row.unit_price = (IF price.k = "number" THEN price.n ELSE 0)

\* C11 witness: an array that holds a selection of the product without a price,
\* and a selection of two ceiling lights at 40.00 each.
C11_Witness ==
    \E p \in Procs :
        \E i, j \in 1..Len(local[p].sel) :
            /\ local[p].sel[i].product_id = "S1"
            /\ local[p].sel[i].extended_price = 0
            /\ local[p].sel[j].product_id = "L1"
            /\ local[p].sel[j].quantity = 2
            /\ local[p].sel[j].extended_price = 8000

\* index of the room named name in the questionnaire q
RoomIndex(q, name) == CHOOSE r \in 1..Len(q.room_list) : q.room_list[r].name = name

\* index of the category of the product of row in categories_selected of q
CategoryIndex(q, row) ==
    CHOOSE c \in 1..Len(q.categories_selected) :
        q.categories_selected[c] = ProductById(row.product_id).category

\* the subcategory bucket of the product of row
BucketOfRow(row) ==
    LET x == ProductById(row.product_id)
    IN IF x.subcategory = "" THEN "general" ELSE x.subcategory

\* C12: the i-th selection of the array one run builds has sort_order i,
\* counted from 0, so sort_order increases strictly along the array; and the
\* array is ordered by room in room_list order, within a room by category in
\* categories_selected order, and within a category the selections of one
\* bucket are not separated.
C12_SortOrder ==
    \A p \in Procs :
        LET sel == local[p].sel
            q == local[p].q
        IN /\ \A i \in 1..Len(sel) : sel[i].sort_order = i - 1
           /\ \A i, j \in 1..Len(sel) :
                i < j =>
                    /\ sel[i].sort_order < sel[j].sort_order
                    /\ RoomIndex(q, sel[i].room_name) <= RoomIndex(q, sel[j].room_name)
                    /\ RoomIndex(q, sel[i].room_name) = RoomIndex(q, sel[j].room_name) =>
                            CategoryIndex(q, sel[i]) <= CategoryIndex(q, sel[j])
                    /\ (/\ sel[i].room_name = sel[j].room_name
                        /\ CategoryIndex(q, sel[i]) = CategoryIndex(q, sel[j])
                        /\ BucketOfRow(sel[i]) = BucketOfRow(sel[j])) =>
                            \A k \in i..j : BucketOfRow(sel[k]) = BucketOfRow(sel[i])

\* C12 witness: an array over two rooms, and an array over two categories of
\* one room, have been built.
C12_Witness ==
    /\ \E p \in Procs :
            /\ Len(local[p].sel) = 2
            /\ local[p].sel[1].room_name = "Bath"
            /\ local[p].sel[2].room_name = "Hall"
    /\ \E p \in Procs :
            /\ Len(local[p].sel) = 3
            /\ local[p].sel[3].product_id = "L1"
            /\ local[p].sel[3].sort_order = 2

\* C13: two runs of generateSelections on the same questionnaire and the same
\* catalog build arrays of the same length that agree position by position on
\* room_name, category, subcategory bucket, quantity and sort_order, whatever
\* the random picks.
C13_StructurallyReproducible ==
    \A p, o \in Procs :
        (/\ Built(p) /\ Built(o)
         /\ local[p].q = local[o].q
         /\ local[p].catalogId = local[o].catalogId) =>
            /\ Len(local[p].sel) = Len(local[o].sel)
            /\ \A i \in 1..Len(local[p].sel) :
                    LET a == local[p].sel[i]
                        b == local[o].sel[i]
                    IN /\ a.room_name = b.room_name
                       /\ ProductById(a.product_id).category = ProductById(b.product_id).category
                       /\ BucketOfRow(a) = BucketOfRow(b)
                       /\ a.quantity = b.quantity
                       /\ a.sort_order = b.sort_order

\* the loops of generateSelections have run in session p
LoopsRan(p) ==
    /\ local[p].q.exists
    /\ pc[p] # "gs_products"
    /\ MatchingProducts(local[p].catalogId, local[p].q.categories_selected) # {}

\* f contains one of the preferred finishes, case-insensitively
ContainsPreferred(f, preferred) ==
    \E j \in 1..Len(preferred.items) :
        includes(toLowerCase(f), toLowerCase(preferred.items[j]))

\* the finish the rule of the claim gives: <<>> is unset
ExpectedFinish(options, preferred) ==
    IF options = <<>> THEN <<>>
    ELSE IF \E i \in 1..Len(options) : ContainsPreferred(options[i], preferred)
    THEN options[CHOOSE i \in 1..Len(options) :
                    /\ ContainsPreferred(options[i], preferred)
                    /\ \A j \in 1..(i - 1) : ~ContainsPreferred(options[j], preferred)]
    ELSE options[1]

\* C14: for every questionnaire, an empty or absent finish_colors included,
\* generateSelections resolves the finish of every selection: the first finish
\* option of the chosen product that contains a preferred finish
\* case-insensitively, else the first option, and unset when the product has no
\* finish options.
C14_FinishResolution ==
    \A p \in Procs :
        LoopsRan(p) =>
            /\ local[p].outcome # "raised"
            /\ \A i \in 1..Len(local[p].sel) :
                    local[p].sel[i].finish =
                        ExpectedFinish(ProductById(local[p].sel[i].product_id).finish_options,
                                       local[p].q.finish_colors)

\* the table of the claim, as (room type, subcategory, quantity) entries
ClaimedQuantities ==
    {<<"kitchen", "kitchen_faucet", 1>>, <<"kitchen", "kitchen_sink", 1>>,
     <<"kitchen", "dishwasher", 1>>, <<"kitchen", "refrigerator", 1>>,
     <<"kitchen", "pendant", 3>>, <<"kitchen", "ceiling", 2>>, <<"kitchen", "outlet", 6>>,
     <<"kitchen", "cabinet_hardware", 24>>,
     <<"bathroom", "bathroom_sink", 1>>, <<"bathroom", "bathroom_faucet", 1>>,
     <<"bathroom", "shower", 1>>, <<"bathroom", "toilet", 1>>, <<"bathroom", "pendant", 1>>,
     <<"bathroom", "ceiling", 1>>, <<"bathroom", "outlet", 4>>,
     <<"bathroom", "cabinet_hardware", 6>>,
     <<"general", "ceiling", 1>>, <<"general", "outlet", 4>>, <<"general", "thermostat", 1>>}

\* the entries of the claim's table for (roomType, subcategory): at most one
ClaimedEntries(roomType, subcategory) ==
    {t[3] : t \in {u \in ClaimedQuantities : u[1] = roomType /\ u[2] = subcategory}}

\* C15: the quantity is the table's entry for (room type, subcategory) if there
\* is one, else the entry of the 'general' sub-table for the subcategory, else
\* 1; it is always a positive integer (checked under SpecQty).
C15_QuantityTable ==
    quantityCall.called =>
        LET own == ClaimedEntries(quantityCall.roomType, quantityCall.subcategory)
            general == ClaimedEntries("general", quantityCall.subcategory)
        IN /\ quantityCall.quantity \in Nat \ {0}
           /\ own # {} => quantityCall.quantity \in own
           /\ (own = {} /\ general # {}) => quantityCall.quantity \in general
           /\ (own = {} /\ general = {}) => quantityCall.quantity = 1

\* C15 witness: a bedroom outlet got the quantity 4 of the 'general' sub-table.
C15_Witness ==
    /\ quantityCall.called
    /\ quantityCall.roomType = "bedroom"
    /\ quantityCall.subcategory = "outlet"
    /\ quantityCall.quantity = 4

(***************************************************************************)
(* Claims about validateAnalysisResult, checked under SpecVal              *)
(***************************************************************************)
\* validateAnalysisResult was called on a record whose rooms is an array, and
\* returned
ValidatedRooms == validation.called /\ ~validation.threw /\ prev.rooms.k = "array"

IsNumber(v) == v.k = "number"
IsMissing(v) == v.k \in {"undefined", "null"}

\* the rules of a room and the closed set of room types, as the claim lists them
RoomRules ==
    {"missing a name", "missing dimensions", "invalid square footage", "seems too large",
     "mismatched dimensions", "invalid confidence score", "invalid type"}
ClosedTypes == {"kitchen", "bathroom", "bedroom", "living_room", "dining_room", "office", "other"}

\* length times width differs from squareFootage by more than 5 (a null
\* squareFootage counts as 0, an absent or non-numeric one is not compared)
Disagrees(d) ==
    /\ IsNumber(d.length) /\ IsNumber(d.width)
    /\ IsNumber(d.squareFootage) \/ d.squareFootage.k = "null"
    /\ LET sqft == IF IsNumber(d.squareFootage) THEN d.squareFootage.n ELSE 0
           calculated == d.length.n * d.width.n
       IN calculated - sqft > SqFt(5) \/ sqft - calculated > SqFt(5)

\* the rule list prescribes a warning of rule for room
Prescribed(room, rule) ==
    LET d == room.dimensions
    IN CASE rule = "missing a name" ->
                IsMissing(room.name) \/ room.name = Str("")
         [] rule = "missing dimensions" -> d.k # "object"
         [] rule = "invalid square footage" ->
                /\ d.k = "object"
                /\ \/ IsMissing(d.squareFootage)
                   \/ IsNumber(d.squareFootage) /\ d.squareFootage.n < SqFt(10)
         [] rule = "seems too large" ->
                d.k = "object" /\ IsNumber(d.squareFootage) /\ d.squareFootage.n > SqFt(2000)
         [] rule = "mismatched dimensions" ->
                d.k = "object" /\ Disagrees(d)
         [] rule = "invalid confidence score" ->
                IsNumber(room.confidence) /\ (room.confidence.n < 0 \/ room.confidence.n > 10)
         [] rule = "invalid type" ->
                ~(room.type.k = "string" /\ room.type.s \in ClosedTypes)

\* the warnings returned for the room of index idx are exactly the prescribed
\* ones, each once
ExactlyPrescribed(idx) ==
    LET emitted == SelectSeq(validation.errors, LAMBDA w : w.room = idx)
    IN /\ {emitted[i].rule : i \in 1..Len(emitted)} =
            {rule \in RoomRules : Prescribed(prev.rooms.items[idx + 1], rule)}
       /\ \A i, j \in 1..Len(emitted) : emitted[i] = emitted[j] => i = j

\* C16: when rooms is a sequence, validateAnalysisResult emits for each room
\* exactly the warnings of the rule list: one for a missing name; one for
\* missing dimensions; otherwise one for a squareFootage missing or below 10,
\* one for a squareFootage above 2000 and one whenever length times width
\* differs from squareFootage by more than 5; one for a confidence present and
\* outside [0,1]; one for a type outside the closed set.
C16_RoomWarnings ==
    ValidatedRooms => \A i \in 1..Len(prev.rooms.items) : ExactlyPrescribed(i - 1)

\* C17: when rooms is a sequence, validateAnalysisResult emits the warning
\* about a total square footage that seems too low whenever totalSquareFootage
\* is below 100, 0 included, and never when it is 100 or more.
C17_TotalWarning ==
    (ValidatedRooms /\ IsNumber(prev.totalSquareFootage)) =>
        (prev.totalSquareFootage.n < SqFt(100)
            <=> \E i \in 1..Len(validation.errors) :
                    validation.errors[i] = Warning(-1, "total square footage seems too low"))

\* C18: validateAnalysisResult never throws, whatever the elements of rooms
\* are, and when rooms is not a sequence it returns exactly one warning.
C18_ValidateNeverThrows ==
    validation.called =>
        /\ ~validation.threw
        /\ prev.rooms.k # "array" =>
                validation.errors = <<Warning(-1, "rooms is not an array")>>

\* C19: validateAnalysisResult leaves its input unchanged: after the call every
\* field of the record and of each room has the value it had before.
C19_ValidateReadOnly == validation.called => result = prev

\* C19 witness: a room without dimensions and a missing total were validated, the
\* missing dimensions were reported, and both are still missing.
C19_Witness ==
    /\ validation.called
    /\ \E i \in 1..Len(validation.errors) : validation.errors[i].rule = "missing dimensions"
    /\ result.rooms.items[1].dimensions.k = "undefined"
    /\ result.totalSquareFootage = Undef

\* C20: for every room, after sanitizeAnalysisResult, type is one of the seven
\* types of the closed set: a type of the set is kept, any other value and a
\* missing type become 'other' (checked under SpecSan).
C20_TypeInClosedSet ==
    Sanitized =>
        \A i \in 1..Len(RoomsOf(result)) :
            LET before == RoomsOf(prev)[i].type
                after == RoomsOf(result)[i].type
            IN /\ after.k = "string" /\ after.s \in ClosedTypes
               /\ IF before.k = "string" /\ before.s \in ClosedTypes
                  THEN after = before
                  ELSE after = Str("other")

\* C20 witness: a room of type 'garage' has become 'other', and a room of type
\* 'bathroom' has stayed one.
C20_Witness ==
    /\ passes = 1 /\ ~threw
    /\ Len(RoomsOf(result)) = 1
    /\ RoomsOf(prev)[1].type = Str("garage")
    /\ RoomsOf(result)[1].type = Str("other")

\* C21: after sanitizeAnalysisResult floorCount is a positive integer: a valid
\* positive floorCount is kept, and an absent, zero, negative or otherwise
\* invalid one becomes 1 (checked under SpecSan).
C21_FloorCountPositive ==
    Sanitized =>
        /\ IsNumber(result.floorCount) /\ result.floorCount.n >= 1
        /\ IF IsNumber(prev.floorCount) /\ prev.floorCount.n >= 1
           THEN result.floorCount = prev.floorCount
           ELSE result.floorCount = Num(1)

\* C22: when generateSelections fails fast inside a generation flow, the
\* status the flow leaves is the status the project had before the flow
\* started (checked under SpecSerial on the step that ends the failed flow).
C22_StatusRestored ==
    [][\A p \in Procs :
          (pc[p] = "catch" /\ pc'[p] = "idle") => status' = local[p].statusBefore]_vars

\* the ids that are present among rooms
PresentIds(rooms) == {i \in 1..Len(rooms) : Truthy(rooms[i].id)}

\* no two of the rooms at the positions in at share an id
DistinctIds(rooms, at) == \A i, j \in at : rooms[i].id = rooms[j].id => i = j

\* C30: after sanitizeAnalysisResult on a record whose rooms is a sequence, the
\* output has as many rooms in the same order, every room has a non-empty id (a
\* room without one gets "room-<index+1>"), and no two rooms share an id when
\* the ids present in the input were pairwise distinct (checked under SpecSan).
C30_RoomIds ==
    (Sanitized /\ prev.rooms.k = "array") =>
        LET before == prev.rooms.items
            after == RoomsOf(result)
        IN /\ Len(after) = Len(before)
           /\ \A i \in 1..Len(before) :
                 /\ Truthy(after[i].id)
                 /\ after[i].id = IF Truthy(before[i].id) THEN before[i].id
                                  ELSE Str("room-" \o ToString(i))
           /\ DistinctIds(before, PresentIds(before)) => DistinctIds(after, 1..Len(after))

\* the rules whose warnings the sanitizer is meant to clear
RepairableRules ==
    {"missing a name", "missing dimensions", "invalid square footage",
     "mismatched dimensions", "invalid confidence score", "invalid type"}

\* C27: validateAnalysisResult(sanitizeAnalysisResult(x)) contains no
\* missing-name, missing-dimensions, invalid-square-footage,
\* mismatched-dimensions, invalid-confidence or invalid-type warning; only the
\* too-large and total-too-low warnings may remain (checked under SpecSan).
C27_SanitizedPassesValidation ==
    Sanitized =>
        /\ ~ValidateThrows(result)
        /\ LET errors == validateAnalysisResult(result)
           IN \A i \in 1..Len(errors) : errors[i].rule \notin RepairableRules

\* the pipeline returned a record
Returned == passes = 1 /\ validation.called /\ ~threw

\* C26: every record analyzeBlueprintWithClaudeVision returns satisfies the
\* sanitizer's postconditions, whether or not the validator reported a warning
\* on the raw record: each room has an id, a name, a features sequence, a
\* confidence in [0,1] and a type in the closed set (checked under SpecPipe).
C26_ReturnedRecordSanitized ==
    Returned =>
        \A i \in 1..Len(RoomsOf(result)) :
            LET room == RoomsOf(result)[i]
            IN /\ Truthy(room.id)
               /\ Truthy(room.name)
               /\ room.features.k = "array"
               /\ IsNumber(room.confidence) /\ room.confidence.n \in 0..10
               /\ room.type.k = "string" /\ room.type.s \in ClosedTypes

\* the positions of a flow inside generateSelections
InGenerateSelections ==
    {"gs_questionnaire", "gs_products", "gs_delete", "gs_insert", "gs_status"}

\* C28: generateSelections is all-or-nothing for the stored selections, also
\* when the delete or the insert fails: when a call finishes, the stored
\* selections are exactly the set stored before the call or exactly the newly
\* generated set, and the status is 'review' only when the new set was stored
\* (checked under SpecFaulty on the step that ends the call).
C28_AllOrNothing ==
    [][\A p \in Procs :
          (pc[p] \in InGenerateSelections /\ pc'[p] \notin InGenerateSelections) =>
              LET new == InsertedRows(local'[p].sel, nextId')
              IN /\ selections' = local[p].entry.selections \/ selections' = new
                 /\ (status' = "review" /\ local'[p].outcome = "returned" /\ Len(local'[p].sel) > 0)
                        => selections' = new]_vars

\* the place of a status in the workflow order
Rank(st) == CHOOSE i \in 1..Len(Statuses) : Statuses[i] = st

\* C29: the status only moves forward along draft, questionnaire, generating,
\* review, approved, exported, except for the revert from 'generating' to
\* 'questionnaire'; 'approved' is written only over 'review' and 'exported'
\* only over 'approved', and nothing moves an 'approved' or 'exported' project
\* back to an earlier status (checked under SpecStatus on every step).
C29_StatusMovesForward ==
    [][status' # status =>
          /\ \/ Rank(status') > Rank(status)
             \/ status = "generating" /\ status' = "questionnaire"
          /\ status' = "approved" => status = "review"
          /\ status' = "exported" => status = "approved"]_vars

(***************************************************************************)
(* Claims about the blueprint analysis service, checked under SpecFiles    *)
(***************************************************************************)
\* the successful analyses of file f in the log lg, oldest first
Successes(lg, f) == SelectSeq(lg, LAMBDA e : e.fileId = f /\ e.ended = "returned")

\* the result of the most recent successful analysis of f in lg
LatestSuccess(lg, f) == Successes(lg, f)[Len(Successes(lg, f))].result

\* the stored record of a file analyzed with success is the latest such result
C23_State ==
    \A f \in FileIds :
        Len(Successes(log, f)) > 0 => files[f].ai_analysis_json = Json(LatestSuccess(log, f))

\* a step that ends a successful analysis of f stores its result as the whole
\* record; every other step leaves the record of f as it is
C23_Step ==
    \A f \in FileIds :
        IF Len(Successes(log', f)) > Len(Successes(log, f))
        THEN files'[f].ai_analysis_json = Json(LatestSuccess(log', f))
        ELSE files'[f].ai_analysis_json = files[f].ai_analysis_json

\* C23: after any sequence of analyzeBlueprint calls on a file, its stored
\* analysis record is exactly the result of the most recent successful
\* analysis: a successful re-analysis replaces the old record wholly and a
\* failed analysis leaves the stored record untouched.
C23_StoredIsLatestSuccess == []C23_State /\ [][C23_Step]_vars

\* a successful analysis of a file followed by a failed one: the first result
\* is still stored
C23_Witness ==
    /\ Len(log) = 2
    /\ log[1].fileId = log[2].fileId
    /\ log[1].ended = "returned" /\ log[2].ended = "raised"
    /\ files[log[1].fileId].ai_analysis_json = Json(log[1].result)
    /\ files[log[1].fileId].ai_analysis_json # OldAnalysis
    /\ files[log[1].fileId].processing_status = "failed"

\* an analyzeBlueprint call is past its first update and has not ended
InAnalyzeBlueprint == ab.pc \in {"ab_context", "ab_perform", "ab_store", "ab_catch"}

\* the file of a running call is 'processing'
C24_State == InAnalyzeBlueprint => files[ab.fileId].processing_status = "processing"

\* a step that ends a call leaves its file 'completed' with the result stored
\* and returns, or leaves it 'failed' and throws
C24_Step ==
    Len(log') > Len(log) =>
        LET e == log'[Len(log')]
            file == files'[e.fileId]
        IN /\ \/ /\ e.ended = "returned"
                 /\ file.processing_status = "completed"
                 /\ file.ai_analysis_json = Json(e.result)
              \/ /\ e.ended = "raised"
                 /\ file.processing_status = "failed"
                 /\ ab'.results = ab.results
                 /\ ab.mode = "single" => ab'.outcome = "raised"
           /\ file.processing_status # "processing"

\* C24: every analyzeBlueprint call first sets the file's processing_status to
\* 'processing' and then ends in exactly one of two ways: 'completed' with the
\* result stored, or 'failed' with the error re-raised; no finished call
\* leaves the file 'processing' (checked under SpecFilesFair).
C24_ProcessingEnds ==
    /\ []C24_State
    /\ [][C24_Step]_vars
    /\ \A n \in 0..(MaxCalls * Cardinality(FileIds)) :
          (InAnalyzeBlueprint /\ Len(log) = n) ~> (Len(log) > n)

\* a single call that ended by throwing, its file 'failed'
C24_Witness ==
    /\ ab.mode = "single" /\ ab.pc = "idle" /\ ab.outcome = "raised"
    /\ Len(log) > 0
    /\ log[Len(log)].ended = "raised"
    /\ log[Len(log)].fileId = ab.fileId
    /\ files[ab.fileId].processing_status = "failed"
    /\ ab.atStart[ab.fileId].processing_status = "completed"

\* analyzeProjectBlueprints has returned
ProjectReturned == ab.mode = "project" /\ ab.pc = "idle" /\ ab.outcome = "returned"

\* the analyzeBlueprint calls that ended during the latest service call
CallEntries == SubSeq(log, ab.logAt + 1, Len(log))

\* C25: analyzeProjectBlueprints analyzes exactly the files that were 'pending'
\* or 'failed' when it started, one after another; a failure on one file does
\* not stop the others; files that were 'completed' or 'processing' are left
\* unchanged; the returned list has one entry per file that succeeded, in
\* processing order (checked under SpecFiles).
C25_BatchAnalysis ==
    ProjectReturned =>
        LET before == ab.atStart
            due == {f \in FileIds : before[f].processing_status \in {"pending", "failed"}}
            ok == SelectSeq(CallEntries, LAMBDA e : e.ended = "returned")
        IN /\ Len(ab.chosen) = Cardinality(due)
           /\ {ab.chosen[i] : i \in 1..Len(ab.chosen)} = due
           /\ Len(CallEntries) = Len(ab.chosen)
           /\ \A i \in 1..Len(CallEntries) : CallEntries[i].fileId = ab.chosen[i]
           /\ \A f \in due : files[f].processing_status \in {"completed", "failed"}
           /\ \A f \in FileIds \ due : files[f] = before[f]
           /\ Len(ab.results) = Len(ok)
           /\ \A i \in 1..Len(ok) :
                 ab.results[i] = [fileId |-> ok[i].fileId, analysis |-> ok[i].result]

\* a batch over two files whose first analysis failed and whose second succeeded
C25_Witness ==
    /\ ProjectReturned
    /\ Len(ab.chosen) = 2
    /\ Len(CallEntries) = 2
    /\ CallEntries[1].ended = "raised" /\ CallEntries[2].ended = "returned"
    /\ Len(ab.results) = 1
    /\ \E f \in FileIds : ab.atStart[f].processing_status = "failed"

====
